---- MODULE Spec2Model ----
(***************************************************************************)
(* Model of src/app.py: a Telegram bot ("Super Bot") whose handlers run    *)
(* one at a time on the dispatcher thread.  State: the process-wide        *)
(* finance ledger, the per-user user_data slot holding the quiz answer,    *)
(* the jobs of the schedule library, the messages sent to the group, and   *)
(* the outcome of the handler that ran last.                               *)
(*                                                                         *)
(* Strings are sequences of one-character strings, so that lower(),        *)
(* join(), split(), startswith() and float() are computed, not assumed.    *)
(* Python floats are modelled exactly on the integers below 2^58: a        *)
(* magnitude is hi * 2^27 + lo, and every arithmetic result is rounded to  *)
(* 53 significant bits, ties to even, as IEEE-754 binary64 does.           *)
(***************************************************************************)
EXTENDS Integers, Sequences, FiniteSets, TLC

\* ------------------------------------------------------------------ bounds

\* longest free-text message / trivia answer, in characters
MaxLen == 2
\* accepted finance operations kept in one run of the ledger specification
MaxOps == 3
\* accepted finance operations in one run of the whole bot
BotOps == 1
\* messages the group sink holds
MaxGroup == 1
\* polls of the study loop in one run of the whole bot
BotPolls == 2
\* updates waiting in the queue in one run of the whole bot
BotQueue == 1
\* polls of the study loop in one run of the timer specification
StudyPolls == 301
\* updates waiting in the queue in one run of the timer specification
MaxQueue == 2

\* ----------------------------------------------------------------- strings

Users == {101, 102}

Letters == {"a", "A", "b"}

RECURSIVE StringsUpTo(_)
StringsUpTo(n) ==
    IF n = 0 THEN {<<>>}
    ELSE LET shorter == StringsUpTo(n - 1)
         IN  shorter \cup {Append(s, c) : s \in {t \in shorter : Len(t) = n - 1}, c \in Letters}

\* a text message is never empty (filters.text)
Texts == StringsUpTo(MaxLen) \ {<<>>}

\* str.lower() on the characters the inputs use
LowerChar(c) ==
    CASE c = "A" -> "a"
      [] c = "B" -> "b"
      [] c = "C" -> "c"
      [] c = "E" -> "e"
      [] c = "I" -> "i"
      [] c = "M" -> "m"
      [] c = "N" -> "n"
      [] c = "O" -> "o"
      [] OTHER -> c

Lower(s) == [i \in 1..Len(s) |-> LowerChar(s[i])]

\* " ".join(args)
RECURSIVE Join(_)
Join(args) ==
    IF Len(args) = 0 THEN <<>>
    ELSE IF Len(args) = 1 THEN args[1]
    ELSE args[1] \o <<" ">> \o Join(Tail(args))

\* s.split(" "): the pieces between single spaces, empty pieces included
RECURSIVE Split(_)
Split(s) ==
    IF \A i \in 1..Len(s) : s[i] # " " THEN <<s>>
    ELSE LET k == CHOOSE i \in 1..Len(s) : s[i] = " " /\ \A j \in 1..(i - 1) : s[j] # " "
         IN  <<SubSeq(s, 1, k - 1)>> \o Split(SubSeq(s, k + 1, Len(s)))

\* s.startswith(p)
StartsWith(s, p) == Len(s) >= Len(p) /\ SubSeq(s, 1, Len(p)) = p

\* ------------------------------------------------------------------ floats

Base == 2^27

\* significant bits of a Python float
MantissaBits == 53

Zero == [neg |-> FALSE, hi |-> 0, lo |-> 0]

Small(n) == [neg |-> n < 0, hi |-> 0, lo |-> IF n < 0 THEN -n ELSE n]

MagLess(a, b) == a.hi < b.hi \/ (a.hi = b.hi /\ a.lo < b.lo)

\* exact sum and difference of magnitudes
MagAdd(a, b) ==
    LET l == a.lo + b.lo
    IN  [hi |-> a.hi + b.hi + (l \div Base), lo |-> l % Base]

MagSub(a, b) ==
    LET l == a.lo - b.lo
    IN  IF l >= 0 THEN [hi |-> a.hi - b.hi, lo |-> l]
        ELSE [hi |-> a.hi - b.hi - 1, lo |-> l + Base]

\* binary digits of the magnitude beyond the 53 a float keeps
ExtraBits(m) ==
    LET top == 2^(MantissaBits - 27)
    IN  CHOOSE k \in 0..4 : m.hi < top * 2^k /\ (k = 0 \/ m.hi >= top * 2^(k - 1))

\* round to nearest, ties to even
RoundMag(m) ==
    LET ulp  == 2^ExtraBits(m)
        r    == m.lo % ulp
        down == m.lo - r
        odd  == (down \div ulp) % 2 = 1
        up   == 2 * r > ulp \/ (2 * r = ulp /\ odd)
        l    == IF up THEN down + ulp ELSE down
    IN  [hi |-> m.hi + (l \div Base), lo |-> l % Base]

Mag(x) == [hi |-> x.hi, lo |-> x.lo]

Signed(neg, m) ==
    [neg |-> neg /\ (m.hi # 0 \/ m.lo # 0), hi |-> m.hi, lo |-> m.lo]

\* the sum of two numbers before rounding
ExactAdd(x, y) ==
    IF x.neg = y.neg THEN Signed(x.neg, MagAdd(Mag(x), Mag(y)))
    ELSE IF MagLess(Mag(x), Mag(y)) THEN Signed(y.neg, MagSub(Mag(y), Mag(x)))
    ELSE Signed(x.neg, MagSub(Mag(x), Mag(y)))

\* float + float
FloatAdd(x, y) ==
    LET e == ExactAdd(x, y) IN Signed(e.neg, RoundMag(Mag(e)))

Neg(x) == Signed(~x.neg, Mag(x))

\* float - float
FloatSub(x, y) == FloatAdd(x, Neg(y))

Digits == {"0", "1", "2", "3", "4", "5", "6", "7", "8", "9"}

DigitVal(c) ==
    CASE c = "0" -> 0 [] c = "1" -> 1 [] c = "2" -> 2 [] c = "3" -> 3 [] c = "4" -> 4
      [] c = "5" -> 5 [] c = "6" -> 6 [] c = "7" -> 7 [] c = "8" -> 8 [] c = "9" -> 9

\* the exact value of a string of decimal digits
RECURSIVE DecimalMag(_)
DecimalMag(ds) ==
    IF Len(ds) = 0 THEN [hi |-> 0, lo |-> 0]
    ELSE LET m == DecimalMag(SubSeq(ds, 1, Len(ds) - 1))
             l == m.lo * 10 + DigitVal(ds[Len(ds)])
         IN  [hi |-> m.hi * 10 + (l \div Base), lo |-> l % Base]

\* float(tok) on the tokens the inputs use: an optional sign and decimal
\* digits give the nearest float, anything else raises ValueError
ParseFloat(tok) ==
    LET body == IF Len(tok) > 0 /\ tok[1] \in {"-", "+"} THEN Tail(tok) ELSE tok
    IN  IF Len(body) > 0 /\ \A i \in 1..Len(body) : body[i] \in Digits
        THEN [ok |-> TRUE, val |-> Signed(Len(tok) > 0 /\ tok[1] = "-", RoundMag(DecimalMag(body)))]
        ELSE [ok |-> FALSE, val |-> Zero]

\* ------------------------------------------------------------------- state

VARIABLES
    finance_data,   \* the ledger: [income, expenses], shared by every user
    accepted,       \* the amounts the ledger took, in order: <<[kind, amount]>>
    user_data,      \* per user: <<>> (no "correct_answer" key) or <<answer>>
    jobs,           \* schedule's job list: <<[interval, next_run, msg, u]>>
    now,            \* seconds since the bot started
    fired,          \* the notifications of the latest run_pending()
    group,          \* the messages sent to GROUP_ID
    pc,             \* the dispatcher thread: "idle" or "study_loop"
    last,           \* the handler that ran last, its inputs and what it did
    update_queue,   \* the updates received and not yet dispatched
    notified,       \* every message the scheduled jobs have sent, in order
    http,           \* the liveness endpoint: "idle", "requested" or the body sent
    replaced        \* history: the answer a user's second quiz in a row replaced

vars == <<finance_data, accepted, user_data, jobs, now, fired, group, pc, last,
          update_queue, notified, http, replaced>>

None == <<>>
Some(a) == <<a>>

\* a message handed to reply_text / send_message
Msg(msg, txt, amt, tot, opts) ==
    [msg |-> msg, txt |-> txt, amt |-> amt, tot |-> tot, opts |-> opts]

Say(msg) == Msg(msg, <<>>, Zero, Zero, <<>>)

JoinFirst == Say("Please join the channel first: ")

Outcome(h, u, m, gate, inp, calls, out, raised) ==
    [h |-> h, u |-> u, member |-> m, gate |-> gate, inp |-> inp,
     calls |-> calls, out |-> out, raised |-> raised]

Init ==
    /\ finance_data = [income |-> Zero, expenses |-> Zero]
    /\ accepted = <<>>
    /\ user_data = [u \in Users |-> None]
    /\ jobs = <<>>
    /\ now = 0
    /\ fired = <<>>
    /\ group = <<>>
    /\ pc = "idle"
    /\ last = Outcome("none", 101, "left", FALSE, <<>>, {}, <<>>, "")
    /\ update_queue = <<>>
    /\ notified = <<>>
    /\ http = "idle"
    /\ replaced = None

\* ------------------------------------------------------------ membership gate

MemberStatuses == {"member", "administrator", "creator"}

\* what get_chat_member answers: a status, or "failure" when the call raises
MemberAnswers == MemberStatuses \cup {"left", "kicked", "failure"}

check_channel_member_failopen(m) ==
    [ret |-> m \in MemberStatuses \cup {"failure"}, exc |-> ""]

\* ret: the value returned; exc: the exception that leaves the function
check_channel_member(m) ==
    IF m = "failure" THEN [ret |-> FALSE, exc |-> ""]
    ELSE [ret |-> m \in MemberStatuses, exc |-> ""]

\* the first three lines of every command handler, when they end the handler
Stopped(m) == ~check_channel_member(m).ret \/ check_channel_member(m).exc # ""

Stop(h, u, m, inp) ==
    IF check_channel_member(m).exc # ""
    THEN Outcome(h, u, m, FALSE, inp, {"membership"}, <<>>, check_channel_member(m).exc)
    ELSE Outcome(h, u, m, FALSE, inp, {"membership"}, <<JoinFirst>>, "")

\* a handler that only replies
KeepAll == UNCHANGED <<finance_data, accepted, user_data, jobs, now, fired, group, pc>>

\* ------------------------------------------------------------------- /start

Welcome == Say("Welcome to Super Bot! Choose a feature: /quiz, /finance, /study, /weather, /music, /fitness, /language, /confession")

start(u, m) ==
    /\ pc = "idle"
    /\ UNCHANGED <<update_queue, notified, http>>
    /\ replaced' = None
    /\ KeepAll
    /\ last' = IF Stopped(m) THEN Stop("start", u, m, <<>>)
               ELSE Outcome("start", u, m, TRUE, <<>>, {"membership"}, <<Welcome>>, "")

\* -------------------------------------------------------------------- /quiz

\* what the trivia fetch gives: requests.get raises, response.json() raises,
\* the payload has no results[0] or lacks a key, or one question
TriviaFault(kind) ==
    CASE kind = "neterr" -> "ConnectionError"
      [] kind = "badjson" -> "JSONDecodeError"
      [] kind = "noresults" -> "IndexError"
      [] kind = "nokey" -> "KeyError"
      [] OTHER -> ""

Trivia(kind, correct, incorrect) ==
    [kind |-> kind, correct_answer |-> correct, incorrect_answers |-> incorrect]

TriviaFailures ==
    {Trivia(k, <<>>, <<>>) : k \in {"neterr", "badjson", "noresults", "nokey"}}

\* random.shuffle(options): any order of the same options
Shuffles(options) ==
    {[i \in 1..Len(options) |-> options[p[i]]] :
        p \in {q \in [1..Len(options) -> 1..Len(options)] :
                 \A i, j \in 1..Len(options) : i # j => q[i] # q[j]}}

StoreAnswerKeepFirst(ud, u, correct_answer) ==
    IF ud[u] = None THEN [ud EXCEPT ![u] = Some(correct_answer)] ELSE ud

StoreAnswerForAll(ud, u, correct_answer) == [v \in DOMAIN ud |-> Some(correct_answer)]

\* context.user_data["correct_answer"] = correct_answer
StoreAnswer(ud, u, correct_answer) == [ud EXCEPT ![u] = Some(correct_answer)]

quiz_stores_before_reply(u, m, t, options, sent) ==
    /\ pc = "idle"
    /\ UNCHANGED <<update_queue, notified, http>>
    /\ replaced' = IF ~Stopped(m) /\ t.kind = "ok" /\ sent
                      /\ last.h = "quiz" /\ last.u = u /\ last.gate /\ last.raised = ""
                   THEN user_data[u] ELSE None
    /\ options \in Shuffles(t.incorrect_answers \o <<t.correct_answer>>)
    /\ UNCHANGED <<finance_data, accepted, jobs, now, fired, group, pc>>
    /\ IF Stopped(m)
       THEN /\ last' = Stop("quiz", u, m, <<>>)
            /\ UNCHANGED user_data
       ELSE IF t.kind # "ok"
       THEN /\ last' = Outcome("quiz", u, m, TRUE, <<>>, {"membership", "trivia"},
                               <<>>, TriviaFault(t.kind))
            /\ UNCHANGED user_data
       ELSE IF ~sent
       THEN /\ last' = Outcome("quiz", u, m, TRUE, <<>>, {"membership", "trivia"},
                               <<>>, "NetworkError")
            /\ user_data' = StoreAnswer(user_data, u, t.correct_answer)
       ELSE /\ last' = Outcome("quiz", u, m, TRUE, <<>>, {"membership", "trivia"},
                               <<Msg("Question: ", <<>>, Zero, Zero, options)>>, "")
            /\ user_data' = StoreAnswer(user_data, u, t.correct_answer)

quiz(u, m, t, options, sent) ==
    /\ pc = "idle"
    /\ UNCHANGED <<update_queue, notified, http>>
    /\ replaced' = IF ~Stopped(m) /\ t.kind = "ok" /\ sent
                      /\ last.h = "quiz" /\ last.u = u /\ last.gate /\ last.raised = ""
                   THEN user_data[u] ELSE None
    /\ options \in Shuffles(t.incorrect_answers \o <<t.correct_answer>>)
    /\ UNCHANGED <<finance_data, accepted, jobs, now, fired, group, pc>>
    /\ IF Stopped(m)
       THEN /\ last' = Stop("quiz", u, m, <<>>)
            /\ UNCHANGED user_data
       ELSE IF t.kind # "ok"
       THEN /\ last' = Outcome("quiz", u, m, TRUE, <<>>, {"membership", "trivia"},
                               <<>>, TriviaFault(t.kind))
            /\ UNCHANGED user_data
       ELSE IF ~sent
       THEN /\ last' = Outcome("quiz", u, m, TRUE, <<>>, {"membership", "trivia"},
                               <<>>, "NetworkError")
            /\ UNCHANGED user_data
       ELSE /\ last' = Outcome("quiz", u, m, TRUE, <<>>, {"membership", "trivia"},
                               <<Msg("Question: ", <<>>, Zero, Zero, options)>>, "")
            /\ user_data' = StoreAnswer(user_data, u, t.correct_answer)

\* ------------------------------------------------------- free-text messages

AnswerMatchesExactly(user_answer, correct_answer) == user_answer = correct_answer

\* user_answer.lower() == correct_answer.lower()
AnswerMatches(user_answer, correct_answer) ==
    Lower(user_answer) = Lower(correct_answer)

Correct == Say("Correct!")

Incorrect(correct_answer) ==
    Msg("Incorrect! The correct answer was: ", correct_answer, Zero, Zero, <<>>)

\* m is what the membership collaborator would answer for the sender; the
\* handler does not ask it
check_answer(u, m, text) ==
    /\ pc = "idle"
    /\ UNCHANGED <<update_queue, notified, http>>
    /\ replaced' = IF last.h = "quiz" /\ last.u = u THEN replaced ELSE None
    /\ KeepAll
    /\ last' =
         IF user_data[u] = None
         THEN Outcome("check_answer", u, m, TRUE, text, {}, <<>>, "AttributeError")
         ELSE IF AnswerMatches(text, user_data[u][1])
         THEN Outcome("check_answer", u, m, TRUE, text, {}, <<Correct>>, "")
         ELSE Outcome("check_answer", u, m, TRUE, text, {}, <<Incorrect(user_data[u][1])>>, "")

\* ----------------------------------------------------------------- /finance

kwIncome == <<"i", "n", "c", "o", "m", "e">>
kwExpense == <<"e", "x", "p", "e", "n", "s", "e">>
kwBalance == <<"b", "a", "l", "a", "n", "c", "e">>

\* float(command.split(" ")[1])
FinanceAmount(command) ==
    LET parts == Split(command)
        amount == ParseFloat(parts[2])
    IN  IF Len(parts) < 2 THEN [ok |-> FALSE, val |-> Zero, exc |-> "IndexError"]
        ELSE IF amount.ok THEN [ok |-> TRUE, val |-> amount.val, exc |-> ""]
        ELSE [ok |-> FALSE, val |-> Zero, exc |-> "ValueError"]

CaughtValueErrorOnly(exc) == exc = "ValueError"

\* except (ValueError, IndexError)
Caught(exc) == exc \in {"ValueError", "IndexError"}

\* finance_data["income"] += amount
AddIncome(fd, amount) == [fd EXCEPT !.income = FloatAdd(@, amount)]

\* finance_data["expenses"] += amount
AddExpense(fd, amount) == [fd EXCEPT !.expenses = FloatAdd(@, amount)]

\* finance_data["income"] - finance_data["expenses"]
Balance(fd) == FloatSub(fd.income, fd.expenses)

InvalidIncome == Say("Please provide a valid income amount.")
InvalidExpense == Say("Please provide a valid expense amount.")
FinanceUsage == Say("Use /finance income <amount>, /finance expense <amount>, or /finance balance.")

FinanceCalls == {"membership"}

finance(u, m, args) ==
    LET command == Lower(Join(args))
        amount == FinanceAmount(command)
        Ran(out, raised) == Outcome("finance", u, m, TRUE, Join(args), FinanceCalls, out, raised)
        Failed(msg) == IF Caught(amount.exc) THEN Ran(<<msg>>, "") ELSE Ran(<<>>, amount.exc)
    IN
    /\ pc = "idle"
    /\ UNCHANGED <<update_queue, notified, http>>
    /\ replaced' = None
    /\ UNCHANGED <<user_data, jobs, now, fired, group, pc>>
    /\ IF Stopped(m)
       THEN /\ last' = Stop("finance", u, m, Join(args))
            /\ UNCHANGED <<finance_data, accepted>>
       ELSE IF StartsWith(command, kwIncome)
       THEN IF amount.ok
            THEN /\ finance_data' = AddIncome(finance_data, amount.val)
                 /\ accepted' = Append(accepted, [kind |-> "income", amount |-> amount.val])
                 /\ last' = Ran(<<Msg("Income added. Total income: ", <<>>, amount.val,
                                      finance_data'.income, <<>>)>>, "")
            ELSE /\ last' = Failed(InvalidIncome)
                 /\ UNCHANGED <<finance_data, accepted>>
       ELSE IF StartsWith(command, kwExpense)
       THEN IF amount.ok
            THEN /\ finance_data' = AddExpense(finance_data, amount.val)
                 /\ accepted' = Append(accepted, [kind |-> "expense", amount |-> amount.val])
                 /\ last' = Ran(<<Msg("Expense added. Total expenses: ", <<>>, amount.val,
                                      finance_data'.expenses, <<>>)>>, "")
            ELSE /\ last' = Failed(InvalidExpense)
                 /\ UNCHANGED <<finance_data, accepted>>
       ELSE IF command = kwBalance
       THEN /\ last' = Ran(<<Msg("Your balance is: ", <<>>, Zero, Balance(finance_data), <<>>)>>, "")
            /\ UNCHANGED <<finance_data, accepted>>
       ELSE /\ last' = Ran(<<FinanceUsage>>, "")
            /\ UNCHANGED <<finance_data, accepted>>

\* -------------------------------------------------------------- /confession

confession_confirms_first(u, m, args, delivered) ==
    LET confession_text == Join(args)
        Ran(calls, out, raised) ==
            Outcome("confession", u, m, TRUE, confession_text, calls, out, raised)
    IN
    /\ pc = "idle"
    /\ UNCHANGED <<update_queue, notified, http>>
    /\ replaced' = None
    /\ UNCHANGED <<finance_data, accepted, user_data, jobs, now, fired, pc>>
    /\ IF Stopped(m)
       THEN /\ last' = Stop("confession", u, m, confession_text)
            /\ UNCHANGED group
       ELSE IF confession_text # <<>>
       THEN IF delivered
            THEN /\ group' = Append(group, confession_text)
                 /\ last' = Ran({"membership", "group"},
                                <<Say("Your confession has been sent anonymously!")>>, "")
            ELSE /\ last' = Ran({"membership", "group"},
                                <<Say("Your confession has been sent anonymously!")>>,
                                "TelegramError")
                 /\ UNCHANGED group
       ELSE /\ last' = Ran({"membership"},
                           <<Say("Please provide a confession after the command.")>>, "")
            /\ UNCHANGED group

\* send_confession_to_group: delivered, or send_message raises
confession(u, m, args, delivered) ==
    LET confession_text == Join(args)
        Ran(calls, out, raised) ==
            Outcome("confession", u, m, TRUE, confession_text, calls, out, raised)
    IN
    /\ pc = "idle"
    /\ UNCHANGED <<update_queue, notified, http>>
    /\ replaced' = None
    /\ UNCHANGED <<finance_data, accepted, user_data, jobs, now, fired, pc>>
    /\ IF Stopped(m)
       THEN /\ last' = Stop("confession", u, m, confession_text)
            /\ UNCHANGED group
       ELSE IF confession_text # <<>>
       THEN IF delivered
            THEN /\ group' = Append(group, confession_text)
                 /\ last' = Ran({"membership", "group"},
                                <<Say("Your confession has been sent anonymously!")>>, "")
            ELSE /\ last' = Ran({"membership", "group"}, <<>>, "TelegramError")
                 /\ UNCHANGED group
       ELSE /\ last' = Ran({"membership"},
                           <<Say("Please provide a confession after the command.")>>, "")
            /\ UNCHANGED group

\* ------------------------------------------------------------------- /study

WorkOver == "Work session is over. Take a 5-minute break!"
BreakOver == "Break time is over. Time to work!"

\* schedule.every(n).minutes.do(...)
Every(minutes, msg, u) ==
    [interval |-> minutes * 60, next_run |-> now + minutes * 60, msg |-> msg, u |-> u]

study_gate_after_register(u, m) ==
    /\ pc = "idle"
    /\ UNCHANGED <<update_queue, notified, http>>
    /\ replaced' = None
    /\ UNCHANGED <<finance_data, accepted, user_data, now, fired, group>>
    /\ jobs' = jobs \o <<Every(25, WorkOver, u), Every(5, BreakOver, u)>>
    /\ IF Stopped(m)
       THEN /\ last' = Stop("study", u, m, <<>>)
            /\ UNCHANGED pc
       ELSE /\ last' = Outcome("study", u, m, TRUE, <<>>, {"membership"},
                   <<Say("Pomodoro timer started! Work for 25 minutes, then take a 5-minute break.")>>, "")
            /\ pc' = "study_loop"

study_returns(u, m) ==
    /\ pc = "idle"
    /\ UNCHANGED <<update_queue, notified, http>>
    /\ replaced' = None
    /\ UNCHANGED <<finance_data, accepted, user_data, now, fired, group, pc>>
    /\ IF Stopped(m)
       THEN /\ last' = Stop("study", u, m, <<>>)
            /\ UNCHANGED jobs
       ELSE /\ jobs' = jobs \o <<Every(25, WorkOver, u), Every(5, BreakOver, u)>>
            /\ last' = Outcome("study", u, m, TRUE, <<>>, {"membership"},
                   <<Say("Pomodoro timer started! Work for 25 minutes, then take a 5-minute break.")>>, "")

\* up to the while loop, which the handler never leaves
study(u, m) ==
    /\ pc = "idle"
    /\ UNCHANGED <<update_queue, notified, http>>
    /\ replaced' = None
    /\ UNCHANGED <<finance_data, accepted, user_data, now, fired, group>>
    /\ IF Stopped(m)
       THEN /\ last' = Stop("study", u, m, <<>>)
            /\ UNCHANGED <<jobs, pc>>
       ELSE /\ jobs' = jobs \o <<Every(25, WorkOver, u), Every(5, BreakOver, u)>>
            /\ last' = Outcome("study", u, m, TRUE, <<>>, {"membership"},
                   <<Say("Pomodoro timer started! Work for 25 minutes, then take a 5-minute break.")>>, "")
            /\ pc' = "study_loop"

\* the jobs run_pending() runs, in the order of sorted(): by next_run
RECURSIVE SortedDue(_)
SortedDue(due) ==
    IF due = {} THEN <<>>
    ELSE LET i == CHOOSE k \in due :
                    \A j \in due : jobs[k].next_run < jobs[j].next_run
                                   \/ (jobs[k].next_run = jobs[j].next_run /\ k <= j)
         IN  <<i>> \o SortedDue(due \ {i})

\* one turn of the loop: schedule.run_pending(); time.sleep(1)
StudyLoop ==
    LET due == {i \in 1..Len(jobs) : jobs[i].next_run <= now}
        order == SortedDue(due)
    IN
    /\ pc = "study_loop"
    /\ fired' = [k \in 1..Len(order) |-> [msg |-> jobs[order[k]].msg, u |-> jobs[order[k]].u]]
    /\ jobs' = [i \in 1..Len(jobs) |->
                  IF i \in due THEN [jobs[i] EXCEPT !.next_run = now + jobs[i].interval]
                  ELSE jobs[i]]
    /\ notified' = notified \o [k \in 1..Len(order) |-> jobs[order[k]].msg]
    /\ now' = now + 1
    /\ UNCHANGED <<finance_data, accepted, user_data, group, pc, last, update_queue, http,
                   replaced>>

\* an update the polling thread receives while the dispatcher thread is inside
\* a handler: it waits in the queue (an update that finds the dispatcher
\* idle is handled at once, which the handler actions model)
Update(h, u, m) == [h |-> h, u |-> u, member |-> m]

Arrive(h, u, m) ==
    /\ pc = "study_loop"
    /\ update_queue' = Append(update_queue, Update(h, u, m))
    /\ UNCHANGED <<finance_data, accepted, user_data, jobs, now, fired, group, pc, last,
                   notified, http, replaced>>

\* ----------------------------------------------------------------- /weather

\* what the weather fetch gives: requests.get raises, response.json() raises,
\* a payload without "cod", cod 200 with or without the fields read, another cod
WeatherFault(w) ==
    CASE w = "neterr" -> "ConnectionError"
      [] w = "badjson" -> "JSONDecodeError"
      [] w = "nocod" -> "KeyError"
      [] w = "found_nomain" -> "KeyError"
      [] OTHER -> ""

WeatherAnswers == {"neterr", "badjson", "nocod", "found", "found_nomain", "notfound"}

weather(u, m, args, w) ==
    LET city == Join(args)
        Ran(calls, out, raised) == Outcome("weather", u, m, TRUE, city, calls, out, raised)
    IN
    /\ pc = "idle"
    /\ UNCHANGED <<update_queue, notified, http>>
    /\ replaced' = None
    /\ KeepAll
    /\ last' =
         IF Stopped(m) THEN Stop("weather", u, m, city)
         ELSE IF city = <<>>
         THEN Ran({"membership"}, <<Say("Please provide a city name.")>>, "")
         ELSE IF WeatherFault(w) # ""
         THEN Ran({"membership", "weather"}, <<>>, WeatherFault(w))
         ELSE IF w = "found"
         THEN Ran({"membership", "weather"}, <<Msg("Weather in ", city, Zero, Zero, <<>>)>>, "")
         ELSE Ran({"membership", "weather"}, <<Say("City not found!")>>, "")

\* ------------------------------------------------------------------- /music

\* requests.get raises, response.json() raises, a payload with "error", one
\* with a first track, one without "tracks" or with an empty track list
MusicFault(r) ==
    CASE r = "neterr" -> "ConnectionError"
      [] r = "badjson" -> "JSONDecodeError"
      [] r = "notracks" -> "KeyError"
      [] r = "emptytracks" -> "IndexError"
      [] OTHER -> ""

MusicAnswers == {"neterr", "badjson", "error", "track", "notracks", "emptytracks"}

music(u, m, args, r) ==
    LET genre == Join(args)
        Ran(calls, out, raised) == Outcome("music", u, m, TRUE, genre, calls, out, raised)
    IN
    /\ pc = "idle"
    /\ UNCHANGED <<update_queue, notified, http>>
    /\ replaced' = None
    /\ KeepAll
    /\ last' =
         IF Stopped(m) THEN Stop("music", u, m, genre)
         ELSE IF genre = <<>>
         THEN Ran({"membership"}, <<Say("Please provide a genre (e.g., /music pop).")>>, "")
         ELSE IF MusicFault(r) # ""
         THEN Ran({"membership", "music"}, <<>>, MusicFault(r))
         ELSE IF r = "error"
         THEN Ran({"membership", "music"}, <<Say("Could not find music for that genre.")>>, "")
         ELSE Ran({"membership", "music"}, <<Msg("Top track: ", genre, Zero, Zero, <<>>)>>, "")

\* ----------------------------------------------------------------- /fitness

kwLog == <<"l", "o", "g">>

fitness(u, m, args) ==
    LET command == Lower(Join(args))
        workout == Join(Tail(Split(command)))
        Ran(out) == Outcome("fitness", u, m, TRUE, Join(args), {"membership"}, out, "")
    IN
    /\ pc = "idle"
    /\ UNCHANGED <<update_queue, notified, http>>
    /\ replaced' = None
    /\ KeepAll
    /\ last' =
         IF Stopped(m) THEN Stop("fitness", u, m, Join(args))
         ELSE IF StartsWith(command, kwLog)
         THEN Ran(<<Msg("Workout logged!", workout, Zero, Zero, <<>>)>>)
         ELSE Ran(<<Say("Use /fitness log <workout> to log a workout.")>>)

\* ---------------------------------------------------------------- /language

\* get_word_of_the_day: requests.get raises, response.json() raises, the
\* payload is a list (word_data["word"] is a TypeError), a dict without
\* "word", or a dict with it
get_word_of_the_day(d) ==
    CASE d = "neterr" -> [word |-> <<>>, exc |-> "ConnectionError"]
      [] d = "badjson" -> [word |-> <<>>, exc |-> "JSONDecodeError"]
      [] d = "list" -> [word |-> <<>>, exc |-> "TypeError"]
      [] d = "noword" -> [word |-> <<>>, exc |-> "KeyError"]
      [] OTHER -> [word |-> <<"a", "b">>, exc |-> ""]

DictionaryAnswers == {"neterr", "badjson", "list", "noword", "word"}

language(u, m, d) ==
    /\ pc = "idle"
    /\ UNCHANGED <<update_queue, notified, http>>
    /\ replaced' = None
    /\ KeepAll
    /\ last' =
         IF Stopped(m) THEN Stop("language", u, m, <<>>)
         ELSE IF get_word_of_the_day(d).exc # ""
         THEN Outcome("language", u, m, TRUE, <<>>, {"membership", "dictionary"}, <<>>,
                      get_word_of_the_day(d).exc)
         ELSE Outcome("language", u, m, TRUE, <<>>, {"membership", "dictionary"},
                      <<Msg("Word of the Day: ", get_word_of_the_day(d).word, Zero, Zero, <<>>)>>, "")

\* ------------------------------------------------------- the Flask thread

\* a client's GET / reaches the Flask server, whatever the bot is doing
Get ==
    /\ http # "requested"
    /\ http' = "requested"
    /\ UNCHANGED <<finance_data, accepted, user_data, jobs, now, fired, group, pc, last,
                   update_queue, notified, replaced>>

Running == "Super Bot is running!"

\* the same view, served on the dispatcher thread
home_on_dispatcher ==
    /\ pc = "idle"
    /\ http = "requested"
    /\ http' = Running
    /\ UNCHANGED <<finance_data, accepted, user_data, jobs, now, fired, group, pc, last,
                   update_queue, notified, replaced>>

\* @app.route("/"), on the thread of run_flask
home ==
    /\ http = "requested"
    /\ http' = Running
    /\ UNCHANGED <<finance_data, accepted, user_data, jobs, now, fired, group, pc, last,
                   update_queue, notified, replaced>>

\* ------------------------------------------------------------------ inputs

\* the correct answers the trivia collaborator gives here
Answers == {<<"a">>, <<"b">>, <<"A", "b">>}

Distractors == {<<"b">>}

Questions == {Trivia("ok", c, <<d>>) : c \in Answers, d \in Distractors}

BotQuestions == {Trivia("ok", <<"A", "b">>, <<<<"b">>>>)}

BotTexts == {<<"a", "b">>, <<"b">>}

BotMembers == {"member", "left", "failure"}

BotTriviaFailures == {Trivia(k, <<>>, <<>>) : k \in {"neterr", "noresults"}}

QuizMembers == {"member", "left"}

LedgerMembers == {"creator", "kicked"}

Big == <<"9", "0", "0", "7", "1", "9", "9", "2", "5", "4", "7", "4", "0", "9", "9", "2">>

\* context.args of /finance
LedgerArgv ==
    { <<kwIncome, <<"5", "0">>>>, <<kwIncome, <<"2", "5">>>>, <<kwExpense, <<"3", "0">>>>,
      <<kwIncome, <<"-", "5">>>>, <<kwIncome, Big>>, <<kwIncome, <<"1">>>>,
      <<<<"I", "n", "c", "o", "m", "e">>, <<"1">>>>,
      <<kwIncome, <<"a", "b", "c">>>>, <<kwExpense, <<"1", "e">>>>,
      <<kwIncome>>, <<kwExpense>>, <<kwIncome \o <<"5">>>>,
      <<kwBalance>>, <<>> }

BotArgv ==
    { <<kwIncome, <<"5", "0">>>>, <<kwExpense, <<"-", "5">>>>, <<kwExpense>>, <<kwBalance>>,
      <<kwIncome \o <<"s">>, <<"5">>>>, <<>> }

\* context.args of /fitness
Words == { <<>>, <<<<"a">>>>, <<<<"L", "o", "g">>, <<"a">>, <<"b">>>> }

\* context.args of /confession, /weather and /music
Phrases == { <<>>, <<<<"a">>, <<"b">>>> }

\* the updates that reach the bot while a handler is running
Arrivals == {Update(h, u, "member") : h \in {"study", "text"}, u \in Users}

\* ---------------------------------------------------------- specifications

\* the whole bot: every handler on the dispatcher thread
Next ==
    \/ \E u \in Users, m \in MemberAnswers : start(u, m)
    \/ \E u \in Users, m \in BotMembers, args \in Phrases, delivered \in BOOLEAN :
          Len(group) < MaxGroup /\ confession(u, m, args, delivered)
    \/ \E u \in Users, m \in BotMembers, t \in BotQuestions \cup BotTriviaFailures, sent \in BOOLEAN :
          \E options \in Shuffles(t.incorrect_answers \o <<t.correct_answer>>) :
             quiz(u, m, t, options, sent)
    \/ \E u \in Users, m \in BotMembers, text \in BotTexts : check_answer(u, m, text)
    \/ \E u \in Users, m \in BotMembers, args \in BotArgv :
          Len(accepted) < BotOps /\ finance(u, m, args)
    \/ \E u \in Users, m \in BotMembers : study(u, m)
    \/ now < BotPolls /\ StudyLoop
    \/ \E a \in Arrivals : Len(update_queue) < BotQueue /\ Arrive(a.h, a.u, a.member)
    \/ \E u \in Users, m \in BotMembers, args \in Phrases, w \in WeatherAnswers :
          weather(u, m, args, w)
    \/ \E u \in Users, m \in BotMembers, args \in Phrases, r \in MusicAnswers :
          music(u, m, args, r)
    \/ \E u \in Users, m \in BotMembers, args \in Words : fitness(u, m, args)
    \/ \E u \in Users, m \in BotMembers, d \in DictionaryAnswers : language(u, m, d)

Spec == Init /\ [][Next]_vars

\* the quiz conversation of two users
NextQuiz ==
    \/ \E u \in Users, m \in QuizMembers, t \in Questions \cup TriviaFailures, sent \in BOOLEAN :
          \E options \in Shuffles(t.incorrect_answers \o <<t.correct_answer>>) :
             quiz(u, m, t, options, sent)
    \/ \E u \in Users, m \in QuizMembers, text \in Texts : check_answer(u, m, text)

SpecQuiz == Init /\ [][NextQuiz]_vars

\* the ledger under /finance commands of every user
NextLedger ==
    \E u \in Users, m \in LedgerMembers, args \in LedgerArgv :
       Len(accepted) < MaxOps /\ finance(u, m, args)

SpecLedger == Init /\ [][NextLedger]_vars

\* the timer: /study, the loop it never leaves, and what arrives meanwhile
NextStudy ==
    \/ \E u \in Users, m \in QuizMembers : study(u, m)
    \/ now < StudyPolls /\ StudyLoop
    \/ \E a \in Arrivals : Len(update_queue) < MaxQueue /\ Arrive(a.h, a.u, a.member)

SpecStudy == Init /\ [][NextStudy]_vars

\* the two threads of __main__: the bot's dispatcher and the Flask server; the
\* operating system runs the Flask thread whenever it has a request to serve
NextLive ==
    \/ \E u \in Users, m \in BotMembers, t \in BotQuestions \cup BotTriviaFailures, sent \in BOOLEAN :
          \E options \in Shuffles(t.incorrect_answers \o <<t.correct_answer>>) :
             quiz(u, m, t, options, sent)
    \/ \E u \in Users, m \in BotMembers, text \in BotTexts : check_answer(u, m, text)
    \/ \E u \in Users, m \in BotMembers, args \in BotArgv :
          Len(accepted) < BotOps /\ finance(u, m, args)
    \/ \E u \in Users, m \in BotMembers : study(u, m)
    \/ now < BotPolls /\ StudyLoop
    \/ Get
    \/ home

SpecLive == Init /\ [][NextLive]_vars /\ WF_vars(home)

\* ------------------------------------------------------------------ claims

\* a lower-case letter and its capital
CasePairs ==
    {{"a", "A"}, {"b", "B"}, {"c", "C"}, {"e", "E"}, {"i", "I"}, {"m", "M"},
     {"n", "N"}, {"o", "O"}, {"p", "P"}, {"s", "S"}, {"x", "X"}}

SameLetter(c, d) == c = d \/ {c, d} \in CasePairs

\* the two strings are equal ignoring letter case
SameIgnoringCase(s, t) ==
    Len(s) = Len(t) /\ \A i \in 1..Len(s) : SameLetter(s[i], t[i])

\* C1: once a quiz has stored the correct answer A for a user, a free-text
\* message of that user equal to A ignoring letter case is answered "Correct!"
\* and any other text "Incorrect! The correct answer was: A".
C1_AnswerJudged ==
    [][( /\ last'.h = "check_answer"
          /\ check_answer(last'.u, last'.member, last'.inp)
          /\ user_data[last'.u] # None ) =>
             /\ last'.raised = ""
             /\ last'.out = IF SameIgnoringCase(last'.inp, user_data[last'.u][1])
                            THEN <<Correct>>
                            ELSE <<Incorrect(user_data[last'.u][1])>>]_vars

C1_Witness ==
    /\ last.h = "check_answer"
    /\ last.out = <<Correct>>
    /\ user_data[last.u] # None
    /\ last.inp # user_data[last.u][1]
    /\ Len(last.inp) > 1

\* C2: a free-text message in a session where no quiz was issued does not
\* raise out of check_answer; the handler ends with a reply.
C2_NoQuizNoCrash ==
    (last.h = "check_answer" /\ user_data[last.u] = None) =>
        (last.raised = "" /\ last.out # <<>>)

\* C3: the first free-text message after a quiz clears the pending answer,
\* whether it matched or not.
C3_SlotReadOnce ==
    (last.h = "check_answer" /\ last.raised = "") => user_data[last.u] = None

\* the exact (unrounded) sum of the accepted amounts of one kind
RECURSIVE ExactTotal(_, _)
ExactTotal(ops, kind) ==
    IF Len(ops) = 0 THEN Zero
    ELSE LET rest == ExactTotal(SubSeq(ops, 1, Len(ops) - 1), kind)
             op == ops[Len(ops)]
         IN  IF op.kind = kind THEN ExactAdd(rest, op.amount) ELSE rest

\* the ledger after the operations, applied in order from income=0, expenses=0
RECURSIVE Replay(_)
Replay(ops) ==
    IF Len(ops) = 0 THEN [income |-> Zero, expenses |-> Zero]
    ELSE LET fd == Replay(SubSeq(ops, 1, Len(ops) - 1))
             op == ops[Len(ops)]
         IN  IF op.kind = "income" THEN AddIncome(fd, op.amount)
             ELSE AddExpense(fd, op.amount)

Orders(n) == {p \in [1..n -> 1..n] : \A i, j \in 1..n : i # j => p[i] # p[j]}

\* C4: income and expenses are the sums of the accepted amounts, the balance
\* command reports income minus expenses, and every order of the same
\* operations ends with the same balance.
C4_LedgerIsSum ==
    /\ finance_data.income = ExactTotal(accepted, "income")
    /\ finance_data.expenses = ExactTotal(accepted, "expense")
    /\ (last.h = "finance" /\ last.out # <<>> /\ last.out[1].msg = "Your balance is: ") =>
           last.out[1].tot = ExactAdd(ExactTotal(accepted, "income"),
                                      Neg(ExactTotal(accepted, "expense")))
    /\ \A p \in Orders(Len(accepted)) :
           Balance(Replay([i \in 1..Len(accepted) |-> accepted[p[i]]])) = Balance(finance_data)

\* the token is an optional sign followed by decimal digits
IsNumeral(tok) ==
    \E k \in 0..1 :
       /\ Len(tok) > k
       /\ k = 1 => tok[1] \in {"+", "-"}
       /\ \A i \in (k + 1)..Len(tok) : tok[i] \in Digits

\* the word starts with the keyword, in any letter case
SameIgnoringCaseWord(w, kw) ==
    Len(w) >= Len(kw) /\ SameIgnoringCase(SubSeq(w, 1, Len(kw)), kw)

\* the sub-command is income or expense, in any letter case
IsIncomeOrExpense(args) ==
    /\ Len(args) >= 1
    /\ \/ SameIgnoringCaseWord(args[1], kwIncome)
       \/ SameIgnoringCaseWord(args[1], kwExpense)

\* C5: a member's finance income or expense command without an amount
\* token, or with one that is no number, leaves both totals as they were,
\* is answered with the request for a valid amount, and does not raise.
C5_BadAmountRejected ==
    [][\A args \in LedgerArgv :
         ( /\ last'.h = "finance"
           /\ last'.inp = Join(args)
           /\ finance(last'.u, last'.member, args)
           /\ last'.member \in {"member", "administrator", "creator"}
           /\ IsIncomeOrExpense(args)
           /\ (Len(args) < 2 \/ ~IsNumeral(args[2])) ) =>
             /\ finance_data' = finance_data
             /\ last'.raised = ""
             /\ last'.out \in {<<InvalidIncome>>, <<InvalidExpense>>}]_vars

C5_Witness ==
    /\ last.h = "finance"
    /\ last.gate
    /\ last.out = <<InvalidIncome>>
    /\ last.inp = kwIncome
    /\ finance_data.income # Zero

\* C6: income >= 0 and expenses >= 0 in every state, and no negative amount
\* is ever accepted.
C6_LedgerNonNegative ==
    /\ ~finance_data.income.neg
    /\ ~finance_data.expenses.neg
    /\ \A i \in 1..Len(accepted) : ~accepted[i].amount.neg

Commands ==
    {"start", "confession", "quiz", "finance", "study", "weather", "music", "fitness", "language"}

\* C7: when the gate returns false, a command handler only sends the "Please
\* join the channel first" reply: ledger, pending answers, scheduled jobs and
\* group sink stay as they were and no collaborator but the membership one
\* is called.
C7_DeniedOnlyReplies ==
    [][( /\ pc = "idle"
          /\ last'.h \in Commands
          /\ last'.member \notin {"member", "administrator", "creator"} ) =>
             /\ UNCHANGED <<finance_data, user_data, jobs, group, pc>>
             /\ last'.out = <<JoinFirst>>
             /\ last'.calls \subseteq {"membership"}]_vars

C7_Witness ==
    /\ last.h = "study"
    /\ ~last.gate
    /\ last.out = <<JoinFirst>>
    /\ user_data[last.u] # None
    /\ accepted # <<>>
    /\ group # <<>>

\* C8: the gate returns true exactly when the membership collaborator
\* answers with member, administrator or creator; for every other status and
\* for a failure of the collaborator it returns false, and no exception
\* leaves it.
C8_GateFailClosed ==
    "membership" \in last.calls =>
        /\ last.gate = (last.member \in {"member", "administrator", "creator"})
        /\ ~last.gate => (last.raised = "" /\ last.out = <<JoinFirst>>)

C8_Witness ==
    /\ last.h = "start"
    /\ last.member = "failure"
    /\ ~last.gate
    /\ last.out = <<JoinFirst>>

\* C9: a free-text message of a user for whom the gate returns false gets no
\* "Correct!" and no "Incorrect!" reply.
C9_FreeTextGated ==
    (last.h = "check_answer" /\ last.member \notin {"member", "administrator", "creator"}) =>
        \A i \in 1..Len(last.out) :
            last.out[i].msg \notin {"Correct!", "Incorrect! The correct answer was: "}

\* C10: when a content collaborator or the group broadcast was called, the
\* handler raises nothing and ends with a reply to the user.
C10_NoErrorEscapes ==
    (last.calls \cap {"trivia", "weather", "music", "dictionary", "group"} # {}) =>
        (last.raised = "" /\ last.out # <<>>)

\* the Study commands members have sent: the one being handled and the ones
\* waiting in the queue
StudiesSent ==
    (IF last.h = "study" /\ last.gate THEN 1 ELSE 0)
    + Cardinality({i \in 1..Len(update_queue) :
                      update_queue[i].h = "study"
                      /\ update_queue[i].member \in {"member", "administrator", "creator"}})

\* C11: after a member's Study command has been sent n times the scheduler
\* holds 2n recurring jobs, n of them every 25 minutes and n every 5 minutes.
C11_TwoJobsPerStudy ==
    /\ Len(jobs) = 2 * StudiesSent
    /\ Cardinality({i \in 1..Len(jobs) : jobs[i].interval = 25 * 60}) = StudiesSent
    /\ Cardinality({i \in 1..Len(jobs) : jobs[i].interval = 5 * 60}) = StudiesSent

IsPrefix(s, t) == Len(s) <= Len(t) /\ SubSeq(t, 1, Len(s)) = s

\* C12: once a member's Study command has entered its loop, the handler never
\* returns and no update that arrives afterwards is dispatched or answered:
\* it stays in the queue and no handler runs again.
C12_StudyStarvesDispatcher ==
    [][(last.h = "study" /\ last.gate) =>
          /\ pc = "study_loop" /\ pc' = "study_loop"
          /\ last' = last
          /\ IsPrefix(update_queue, update_queue')
          /\ UNCHANGED <<finance_data, user_data, group>>]_vars

C12_Witness ==
    /\ pc = "study_loop"
    /\ now > 0
    /\ Len(update_queue) = 2
    /\ update_queue[1].h = "text"
    /\ update_queue[2].h = "study"

\* C15: no "Break time is over" notification comes before the first "Work
\* session is over" notification, and the two alternate from then on.
C15_WorkThenBreak ==
    \A i \in 1..Len(notified) :
       notified[i] = IF i % 2 = 1 THEN WorkOver ELSE BreakOver

\* the reply to a free-text message judged against one stored answer
Judged(text, correct_answer) ==
    IF SameIgnoringCase(text, correct_answer) THEN <<Correct>>
    ELSE <<Incorrect(correct_answer)>>

\* C13: a session holds one pending answer and a new quiz overwrites it: a
\* quiz that showed a question with correct answer A2 leaves A2 in the
\* user's slot whatever was there, and after two quizzes in a row the user's
\* next free-text message is judged against A2 only.
C13_LastQuizWins ==
    [][ /\ (last'.h = "quiz" /\ last'.gate /\ last'.raised = "") =>
              \A t \in Questions :
                 quiz(last'.u, last'.member, t, last'.out[1].opts, TRUE) =>
                    user_data'[last'.u] = Some(t.correct_answer)
        /\ ( /\ last'.h = "check_answer"
             /\ check_answer(last'.u, last'.member, last'.inp)
             /\ replaced' # None ) =>
              /\ last'.raised = ""
              /\ last.h = "quiz" /\ last.u = last'.u
              /\ \E i \in 1..Len(last.out[1].opts) :
                    /\ last.out[1].opts[i] = user_data[last'.u][1]
                    /\ last'.out = Judged(last'.inp, last.out[1].opts[i]) ]_vars

C13_Witness ==
    /\ last.h = "check_answer"
    /\ replaced # None
    /\ user_data[last.u] # None
    /\ last.inp = replaced[1]
    /\ ~SameIgnoringCase(replaced[1], user_data[last.u][1])
    /\ last.out = <<Incorrect(user_data[last.u][1])>>

\* C14: the pending-answer slot changes only when a quiz question was
\* obtained and shown: a quiz whose fetch fails, whose payload is malformed
\* or whose question cannot be sent leaves every slot as it was, and a slot
\* that is set holds one of the options shown in that question.
C14_SlotSetOnlyWhenShown ==
    [][ /\ (last'.h = "quiz" /\ (last'.raised # "" \/ ~last'.gate)) =>
              UNCHANGED user_data
        /\ (last'.h = "quiz" /\ last'.gate /\ last'.raised = "") =>
              /\ user_data'[last'.u] # None
              /\ \E i \in 1..Len(last'.out[1].opts) :
                    last'.out[1].opts[i] = user_data'[last'.u][1]
        /\ user_data' # user_data =>
              (last'.h = "quiz" /\ last'.gate /\ last'.raised = "") ]_vars

C14_Witness ==
    /\ last.h = "quiz"
    /\ last.raised = "NetworkError"
    /\ user_data[last.u] # None

\* C16: pending answers are isolated per user: a user's slot changes only in
\* a quiz of that user, and a user's free-text message is judged against that
\* user's own slot whatever the other users' slots hold.
C16_SlotsIsolated ==
    [][ /\ \A v \in Users :
              user_data'[v] # user_data[v] => (last'.h = "quiz" /\ last'.u = v)
        /\ ( /\ last'.h = "check_answer"
             /\ check_answer(last'.u, last'.member, last'.inp)
             /\ user_data[last'.u] # None ) =>
              last'.out = Judged(last'.inp, user_data[last'.u][1]) ]_vars

C16_Witness ==
    /\ last.h = "check_answer"
    /\ \A u \in Users : user_data[u] # None
    /\ \E v \in Users \ {last.u} :
          /\ SameIgnoringCase(last.inp, user_data[v][1])
          /\ ~SameIgnoringCase(last.inp, user_data[last.u][1])
    /\ last.out = <<Incorrect(user_data[last.u][1])>>

\* the sub-command word is the keyword, in any letter case
IsSubCommand(args, kw) == Len(args) >= 1 /\ SameIgnoringCase(args[1], kw)

\* C17: the ledger changes only in a finance command whose sub-command is
\* income or expense and whose amount parses; balance, an unrecognised or an
\* empty sub-command and every other handler leave both totals as they were;
\* an income command leaves expenses and an expense command leaves income.
C17_LedgerFrame ==
    [][ /\ finance_data' # finance_data =>
              /\ last'.h = "finance"
              /\ \E args \in BotArgv :
                    /\ last'.inp = Join(args)
                    /\ IsSubCommand(args, kwIncome) \/ IsSubCommand(args, kwExpense)
                    /\ Len(args) >= 2 /\ IsNumeral(args[2])
        /\ \A args \in BotArgv :
              (last'.h = "finance" /\ last'.inp = Join(args)) =>
                 /\ IsSubCommand(args, kwIncome) => finance_data'.expenses = finance_data.expenses
                 /\ IsSubCommand(args, kwExpense) => finance_data'.income = finance_data.income
        ]_vars

\* C18: a confession is sent to the group exactly when the sender passes the
\* gate and gives some text; then the group receives one message, the
\* argument tokens joined by single spaces whoever the sender is, and the
\* confirmation is replied only once that message is out; with no text, or
\* from any other handler, the group receives nothing.
C18_ConfessionBroadcast ==
    [][ /\ group' # group => last'.h = "confession"
        /\ \A args \in Phrases :
              ( /\ last'.h = "confession"
                /\ \E delivered \in BOOLEAN :
                      confession(last'.u, last'.member, args, delivered) ) =>
                 /\ "group" \in last'.calls <=>
                       (last'.member \in {"member", "administrator", "creator"} /\ args # <<>>)
                 /\ "group" \notin last'.calls => group' = group
                 /\ "group" \in last'.calls =>
                       \/ /\ group' = Append(group, Join(args))
                          /\ last'.out = <<Say("Your confession has been sent anonymously!")>>
                          /\ last'.raised = ""
                       \/ /\ group' = group
                          /\ last'.out = <<>>
                          /\ last'.raised # "" ]_vars

C18_Witness ==
    /\ last.h = "confession"
    /\ last.u = 102
    /\ group = << <<"a", " ", "b">> >>
    /\ last.out = <<Say("Your confession has been sent anonymously!")>>

\* C19: the liveness endpoint does not depend on the bot: a GET is
\* eventually answered with "Super Bot is running!", also while a study
\* handler sits in its timer loop or after a handler has raised, and the
\* answer changes neither the ledger nor a pending answer nor the jobs.
C19_LivenessIndependent ==
    /\ (http = "requested") ~> (http = "Super Bot is running!")
    /\ (http = "requested" /\ pc = "study_loop") ~> (http = "Super Bot is running!")
    /\ (http = "requested" /\ last.raised # "") ~> (http = "Super Bot is running!")
    /\ [][http' # http => UNCHANGED <<finance_data, user_data, jobs>>]_vars
    /\ [][http' \in {http, "requested", "Super Bot is running!"}]_vars

C19_Witness ==
    /\ http = "Super Bot is running!"
    /\ pc = "study_loop"
    /\ now > 0
    /\ jobs # <<>>

====
